---- MODULE Spec2Model ----
(***************************************************************************)
(* LoRaWAN payload decoders of lopytrack.                                  *)
(*                                                                         *)
(* Three scripts each define Decode(port, bytes):                          *)
(*   layout A  src/unnamed/part_000       9 float32 fields, 36 bytes       *)
(*   layout B  src/unnamed/part_001 and src/js/decode.js lines 19-71       *)
(*                                        10 float32 fields, 40 bytes      *)
(*   layout C  src/js/decode.js lines 2-12  flags, integers, fixed point   *)
(* and the scripts of layouts B and C add the adapter Decoder(bytes, port).*)
(* decode.js holds the scripts of layouts C and B one after the other; each *)
(* is modelled as the script it is when deployed alone.                    *)
(*                                                                         *)
(* JavaScript values are modelled as follows.                              *)
(*   - an int32 (the result of a bitwise operator) is an integer in        *)
(*     -2^31 .. 2^31-1; the operators wrap as the language defines;        *)
(*   - the result of reading an array element is <<v>> when the index is   *)
(*     inside the array and <<>> (undefined) when it is outside;           *)
(*   - a float64 that is sign * m * 2^x is [neg, mant, exp] with mant odd  *)
(*     (or 0, exp 0): one record per float64 value, signed zeros included; *)
(*   - the float64 quotient n / d of two integers is [num, den];           *)
(*   - null is the record Null.                                            *)
(***************************************************************************)
EXTENDS Integers, Sequences, FiniteSets, TLC

VARIABLES
    given,    \* the byte buffer as the caller passed it
    bytes,    \* the same buffer object, as it is after the last call
    layout,   \* which script's Decode ran last: "none", "A", "B" or "C"
    record,   \* the object the last call returned
    bits,     \* the global variable `bits` (decode.js:31 assigns it without var)
    snap      \* an earlier call kept for comparison: <<>> or <<[layout, bytes, record]>>

vars == <<given, bytes, layout, record, bits, snap>>

----------------------------------------------------------------------------
(* Bounds of the model *)

\* Buffers are 0 .. MaxLen bytes long (layout B reads 40 bytes).
MaxLen == 41

----------------------------------------------------------------------------
(* int32 arithmetic of the bitwise operators *)

Pow2(n) == 2 ^ n

\* Bits 0..30 of an int32, as a natural number.
Low31(v) == IF v < 0 THEN (v + 2147483647) + 1 ELSE v

\* Bit 31 of an int32.
Bit31(v) == IF v < 0 THEN 1 ELSE 0

\* The int32 with bit 31 = top and bits 0..30 = low.
Int32(top, low) == IF top = 1 THEN (low - 2147483647) - 1 ELSE low

\* Bitwise or of two natural numbers.  Where one of the two has a low byte (or a
\* low half byte) of zeros the other's passes through; otherwise bit by bit.
RECURSIVE OrNat(_, _)
OrNat(a, b) ==
    IF a = 0 THEN b
    ELSE IF b = 0 THEN a
    ELSE IF a % 256 = 0 \/ b % 256 = 0
         THEN (a % 256) + (b % 256) + 256 * OrNat(a \div 256, b \div 256)
    ELSE IF a % 16 = 0 \/ b % 16 = 0
         THEN (a % 16) + (b % 16) + 16 * OrNat(a \div 16, b \div 16)
    ELSE (IF a % 2 = 1 \/ b % 2 = 1 THEN 1 ELSE 0) + 2 * OrNat(a \div 2, b \div 2)

\* Bitwise and of two natural numbers.  Where one of the two has a low byte (or
\* a low half byte) of ones the other's passes through; otherwise bit by bit.
RECURSIVE AndNat(_, _)
AndNat(a, b) ==
    IF a = 0 \/ b = 0 THEN 0
    ELSE IF a % 256 = 255 \/ b % 256 = 255
         THEN ((a % 256) + (b % 256) - 255) + 256 * AndNat(a \div 256, b \div 256)
    ELSE IF a % 16 = 15 \/ b % 16 = 15
         THEN ((a % 16) + (b % 16) - 15) + 16 * AndNat(a \div 16, b \div 16)
    ELSE (IF a % 2 = 1 /\ b % 2 = 1 THEN 1 ELSE 0) + 2 * AndNat(a \div 2, b \div 2)

\* a | b
BitOr(a, b) ==
    Int32(IF Bit31(a) = 1 \/ Bit31(b) = 1 THEN 1 ELSE 0, OrNat(Low31(a), Low31(b)))

\* a & b
BitAnd(a, b) ==
    Int32(IF Bit31(a) = 1 /\ Bit31(b) = 1 THEN 1 ELSE 0, AndNat(Low31(a), Low31(b)))

\* a << n, 1 <= n <= 30: the low 32-n bits move up, bit 31-n becomes the sign.
Shl(a, n) ==
    LET half == Pow2(31 - n)
        low  == IF n = 1 THEN Low31(a) ELSE Low31(a) % (2 * half)
    IN  IF low >= half THEN ((low - half) - half) * Pow2(n) ELSE low * Pow2(n)

\* a >>> n, 1 <= n <= 31: the unsigned pattern moves down, zeros come in.
Ushr(a, n) ==
    IF n = 31 THEN Bit31(a)
    ELSE (Low31(a) \div Pow2(n)) + (IF a < 0 THEN Pow2(31 - n) ELSE 0)

\* a >> n, 1 <= n <= 30: the sign is kept.
Sar(a, n) == a \div Pow2(n)

----------------------------------------------------------------------------
(* Array reads and the conversion of an operand to int32 *)

Undefined == <<>>

Null == [null |-> TRUE]

\* b[i], i from 0: undefined outside the array.
Elem(b, i) == IF i >= 0 /\ i < Len(b) THEN <<b[i + 1]>> ELSE Undefined

ToInt32_UndefinedAllOnes(v) == IF v = Undefined THEN -1 ELSE v[1]

\* ToInt32 of a bitwise operand: undefined converts to NaN and NaN to 0.
ToInt32(v) == IF v = Undefined THEN 0 ELSE v[1]

Min(a, b) == IF a < b THEN a ELSE b

\* b.slice(from, to): the elements that exist in from .. to-1.
slice(b, from, to) == SubSeq(b, Min(from, Len(b)) + 1, Min(to, Len(b)))

----------------------------------------------------------------------------
(* float64 values *)

RECURSIVE OddPart(_, _)
OddPart(m, x) == IF m % 2 = 0 THEN OddPart(m \div 2, x + 1) ELSE <<m, x>>

\* The float64 sign * m * 2^x, for 0 <= m < 2^53 and a result in range:
\* both products are then exact.  sign * 0 keeps the sign (-0).
Float64(sign, m, x) ==
    IF m = 0 THEN [neg |-> sign < 0, mant |-> 0, exp |-> 0]
    ELSE LET o == OddPart(m, x) IN [neg |-> sign < 0, mant |-> o[1], exp |-> o[2]]

\* The float64 n / d (correctly rounded quotient of two integers, d > 0).  For
\* |n| < 2^31 and a fixed d, different n give different quotients.
Quotient(n, d) == [num |-> n, den |-> d]

----------------------------------------------------------------------------
(* Layout A: src/unnamed/part_000 *)

\* var bits = bytes[3]<<24 | bytes[2]<<16 | bytes[1]<<8 | bytes[0];
AssembleBits(b) ==
    BitOr(BitOr(BitOr(Shl(ToInt32(Elem(b, 3)), 24), Shl(ToInt32(Elem(b, 2)), 16)),
                Shl(ToInt32(Elem(b, 1)), 8)),
          ToInt32(Elem(b, 0)))

\* var sign = (bits>>>31 === 0) ? 1.0 : -1.0;
SignOf(w) == IF Ushr(w, 31) = 0 THEN 1 ELSE -1

\* var e = bits>>>23 & 0xff;
ExponentOf(w) == BitAnd(Ushr(w, 23), 255)

MantissaOf_SubnormalUnshifted(w, e) ==
    IF e = 0 THEN BitAnd(w, 8388607) ELSE BitOr(BitAnd(w, 8388607), 8388608)

\* var m = (e === 0) ? (bits & 0x7fffff)<<1 : (bits & 0x7fffff) | 0x800000;
MantissaOf(w, e) ==
    IF e = 0 THEN Shl(BitAnd(w, 8388607), 1) ELSE BitOr(BitAnd(w, 8388607), 8388608)

\* bytesToFloat of layout A: no test of the exponent.
bytesToFloat(b) ==
    LET w == AssembleBits(b)
        e == ExponentOf(w)
    IN  Float64(SignOf(w), MantissaOf(w, e), e - 150)

FieldsA == <<"lat", "lon", "ax", "ay", "az", "roll", "pitch", "count", "missed">>

DecodeA_WithoutMissed(port, b) ==
    [ lat    |-> bytesToFloat(slice(b, 0, 4)),
      lon    |-> bytesToFloat(slice(b, 4, 8)),
      ax     |-> bytesToFloat(slice(b, 8, 12)),
      ay     |-> bytesToFloat(slice(b, 12, 16)),
      az     |-> bytesToFloat(slice(b, 16, 20)),
      roll   |-> bytesToFloat(slice(b, 20, 24)),
      pitch  |-> bytesToFloat(slice(b, 24, 28)),
      count  |-> bytesToFloat(slice(b, 28, 32)) ]

DecodeA_RollPitchSwapped(port, b) ==
    [ lat    |-> bytesToFloat(slice(b, 0, 4)),
      lon    |-> bytesToFloat(slice(b, 4, 8)),
      ax     |-> bytesToFloat(slice(b, 8, 12)),
      ay     |-> bytesToFloat(slice(b, 12, 16)),
      az     |-> bytesToFloat(slice(b, 16, 20)),
      roll   |-> bytesToFloat(slice(b, 24, 28)),
      pitch  |-> bytesToFloat(slice(b, 20, 24)),
      count  |-> bytesToFloat(slice(b, 28, 32)),
      missed |-> bytesToFloat(slice(b, 32, 36)) ]

DecodeA(port, b) ==
    [ lat    |-> bytesToFloat(slice(b, 0, 4)),
      lon    |-> bytesToFloat(slice(b, 4, 8)),
      ax     |-> bytesToFloat(slice(b, 8, 12)),
      ay     |-> bytesToFloat(slice(b, 12, 16)),
      az     |-> bytesToFloat(slice(b, 16, 20)),
      roll   |-> bytesToFloat(slice(b, 20, 24)),
      pitch  |-> bytesToFloat(slice(b, 24, 28)),
      count  |-> bytesToFloat(slice(b, 28, 32)),
      missed |-> bytesToFloat(slice(b, 32, 36)) ]

----------------------------------------------------------------------------
(* Layout B: src/unnamed/part_001, the same code as src/js/decode.js:19-79 *)

\* Declared inside Decode and called nowhere.  In decode.js it assigns the
\* global `bits`; in part_001 the variable is local.
BytesToInt16(b) == BitOr(Shl(ToInt32(Elem(b, 0)), 8), ToInt32(Elem(b, 1)))

BytesToFloat32(b) ==
    LET w == AssembleBits(b)
        e == ExponentOf(w)
    IN  IF e = 255 THEN Null
        ELSE Float64(SignOf(w), MantissaOf(w, e), e - 150)

FieldsB == <<"time", "lat", "lon", "height", "hdop", "ax", "ay", "az", "roll", "pitch">>

DecodeB(port, b) ==
    [ time   |-> BytesToFloat32(slice(b, 0, 4)),
      lat    |-> BytesToFloat32(slice(b, 4, 8)),
      lon    |-> BytesToFloat32(slice(b, 8, 12)),
      height |-> BytesToFloat32(slice(b, 12, 16)),
      hdop   |-> BytesToFloat32(slice(b, 16, 20)),
      ax     |-> BytesToFloat32(slice(b, 20, 24)),
      ay     |-> BytesToFloat32(slice(b, 24, 28)),
      az     |-> BytesToFloat32(slice(b, 28, 32)),
      roll   |-> BytesToFloat32(slice(b, 32, 36)),
      pitch  |-> BytesToFloat32(slice(b, 36, 40)) ]

\* Decoder(bytes, port) { return Decode(port, bytes); }
DecoderB(b, port) == DecodeB(port, b)

----------------------------------------------------------------------------
(* Layout C: src/js/decode.js:2-17 *)

FieldsC == <<"error", "fixed", "time", "longitude", "latitude", "height", "precision">>

\* (bytes[0] & 0x01)
ErrorC(b) == BitAnd(ToInt32(Elem(b, 0)), 1)

FixedC_Unshifted(b) == BitAnd(ToInt32(Elem(b, 0)), 2)

\* (bytes[0] & 0x02) >> 1
FixedC(b) == Sar(BitAnd(ToInt32(Elem(b, 0)), 2), 1)

TimeC_BigEndian(b) ==
    BitOr(BitOr(ToInt32(Elem(b, 3)), Shl(ToInt32(Elem(b, 2)), 8)),
          Shl(ToInt32(Elem(b, 1)), 16))

\* bytes[1] | (bytes[2] << 8) | (bytes[3] << 16)
TimeC(b) ==
    BitOr(BitOr(ToInt32(Elem(b, 1)), Shl(ToInt32(Elem(b, 2)), 8)),
          Shl(ToInt32(Elem(b, 3)), 16))

LongitudeC_FromByte4(b) ==
    Quotient(
        BitOr(BitOr(BitOr(ToInt32(Elem(b, 4)), Shl(ToInt32(Elem(b, 5)), 8)),
                    Shl(ToInt32(Elem(b, 6)), 16)),
              Shl(ToInt32(Elem(b, 7)), 24)),
        1000000)

\* (bytes[5] | (bytes[6] << 8) | (bytes[7] << 16) | (bytes[8] << 24))/1000000.
LongitudeC(b) ==
    Quotient(
        BitOr(BitOr(BitOr(ToInt32(Elem(b, 5)), Shl(ToInt32(Elem(b, 6)), 8)),
                    Shl(ToInt32(Elem(b, 7)), 16)),
              Shl(ToInt32(Elem(b, 8)), 24)),
        1000000)

\* (bytes[9] | (bytes[10] << 8) | (bytes[11] << 16) | (bytes[12] << 24))/1000000.
LatitudeC(b) ==
    Quotient(
        BitOr(BitOr(BitOr(ToInt32(Elem(b, 9)), Shl(ToInt32(Elem(b, 10)), 8)),
                    Shl(ToInt32(Elem(b, 11)), 16)),
              Shl(ToInt32(Elem(b, 12)), 24)),
        1000000)

\* bytes[13] | (bytes[14] << 8)
HeightC(b) == BitOr(ToInt32(Elem(b, 13)), Shl(ToInt32(Elem(b, 14)), 8))

\* (bytes[15] | (bytes[16] << 8))/10.
PrecisionC(b) == Quotient(BitOr(ToInt32(Elem(b, 15)), Shl(ToInt32(Elem(b, 16)), 8)), 10)

DecodeC(port, b) ==
    [ error     |-> ErrorC(b),
      fixed     |-> FixedC(b),
      time      |-> TimeC(b),
      longitude |-> LongitudeC(b),
      latitude  |-> LatitudeC(b),
      height    |-> HeightC(b),
      precision |-> PrecisionC(b) ]

\* Decoder(bytes, port) { return Decode(port, bytes); }
DecoderC(b, port) == DecodeC(port, b)

----------------------------------------------------------------------------
(* The buffers a caller passes *)

\* Byte values: the flag combinations of layout C's byte 0 (0, 1, 2, 3), the
\* bytes of 1.0 (0x3F, 0x80), and the bytes that give exponent 255 and both
\* signs of an int32 (0x7F, 0x80, 0xFF).
ByteVals == {0, 1, 2, 3, 63, 127, 128, 255}

\* len bytes, all equal to fill, except the bytes of run written from offset off on.
Payload(len, off, run, fill) ==
    [i \in 1..len |->
        IF i - 1 >= off /\ i - 1 < off + Len(run) THEN run[i - off] ELSE fill]

\* Buffers longer than every layout: zeros, and two chosen bytes at any offset.
Windowed ==
    {Payload(MaxLen, off, run, 0) : off \in 0..(MaxLen - 1), run \in ByteVals \X ByteVals}

\* The same among 0xFF bytes, the two bytes chosen among those that end the
\* run of ones in a sign, an exponent or a top byte.
WindowedInOnes ==
    {Payload(MaxLen, off, run, 255) :
        off \in 0..(MaxLen - 1), run \in {0, 63, 127, 128} \X {0, 63, 127, 128}}

\* Buffers of every length, the empty one included, filled with one byte value.
Truncated == {Payload(len, 0, <<>>, fill) : len \in 0..MaxLen, fill \in ByteVals}

Buffers == Windowed \cup WindowedInOnes \cup Truncated

\* The buffers of the runs that compare calls: short of, exactly at and past a
\* layout's length.
SeqBuffers == {Payload(len, 0, <<>>, fill) : len \in {0, 17, 38, MaxLen}, fill \in {0, 63, 255}}

Ports == {1, 2}

----------------------------------------------------------------------------
(* Calls *)

\* The buffer after Decode has run: no statement of any script writes to it.
BufferAfter(b) == b

GlobalAfter_Int16Called(g, b) == <<BytesToInt16(slice(b, 0, 2))>>

\* The global `bits` after Decode has run: only BytesToInt16 of decode.js
\* assigns it, and no script calls BytesToInt16.
GlobalAfter(g, b) == g

Call(l, r) ==
    /\ layout' = l
    /\ record' = r
    /\ bytes' = BufferAfter(bytes)
    /\ bits' = GlobalAfter(bits, bytes)
    /\ UNCHANGED given

CallDecodeA == \E p \in Ports : Call("A", DecodeA(p, bytes)) /\ UNCHANGED snap

CallDecodeB == \E p \in Ports : Call("B", DecodeB(p, bytes)) /\ UNCHANGED snap

CallDecoderB == \E p \in Ports : Call("B", DecoderB(bytes, p)) /\ UNCHANGED snap

CallDecodeC == \E p \in Ports : Call("C", DecodeC(p, bytes)) /\ UNCHANGED snap

CallDecoderC == \E p \in Ports : Call("C", DecoderC(bytes, p)) /\ UNCHANGED snap

NoRecord == [none |-> TRUE]

Start(bufs) ==
    /\ given \in bufs
    /\ bytes = given
    /\ layout = "none"
    /\ record = NoRecord
    /\ bits = Undefined
    /\ snap = <<>>

Init == Start(Buffers)

Next ==
    \/ CallDecodeA
    \/ CallDecodeB
    \/ CallDecoderB
    \/ CallDecodeC
    \/ CallDecoderC

Spec == Init /\ [][Next]_vars

----------------------------------------------------------------------------
(* Sequences of calls on changing buffers, one earlier call kept *)

\* Before the caller goes on, it may keep what the last call was given and
\* what it returned.
Archive ==
    snap' \in {snap} \cup
        (IF layout = "none" THEN {}
         ELSE {<<[layout |-> layout, bytes |-> given, record |-> record]>>})

\* The network server hands over the next uplink's buffer.
Receive == \E b \in SeqBuffers :
    /\ given' = b
    /\ bytes' = b
    /\ layout' = "none"
    /\ record' = NoRecord
    /\ UNCHANGED bits
    /\ Archive

SeqDecodeA == \E p \in Ports : Call("A", DecodeA(p, bytes)) /\ Archive

SeqDecodeB == \E p \in Ports : Call("B", DecodeB(p, bytes)) /\ Archive

SeqDecoderB == \E p \in Ports : Call("B", DecoderB(bytes, p)) /\ Archive

SeqDecodeC == \E p \in Ports : Call("C", DecodeC(p, bytes)) /\ Archive

SeqDecoderC == \E p \in Ports : Call("C", DecoderC(bytes, p)) /\ Archive

SeqInit == Start(SeqBuffers)

SeqNext ==
    \/ Receive
    \/ SeqDecodeA
    \/ SeqDecodeB
    \/ SeqDecoderB
    \/ SeqDecodeC
    \/ SeqDecoderC

SeqSpec == SeqInit /\ [][SeqNext]_vars

----------------------------------------------------------------------------
(* What the claims speak of *)

\* The byte at offset i (from 0) of a buffer, 0 where the buffer has ended.
ByteAt(b, i) == IF i < Len(b) THEN b[i + 1] ELSE 0

FieldsOf(l) == IF l = "A" THEN FieldsA ELSE IF l = "B" THEN FieldsB ELSE FieldsC

\* The number of bytes a layout reads.
FullLength(l) == IF l = "A" THEN 36 ELSE IF l = "B" THEN 40 ELSE 17

DecodeOf(l, p, b) ==
    IF l = "A" THEN DecodeA(p, b) ELSE IF l = "B" THEN DecodeB(p, b) ELSE DecodeC(p, b)

ReassembleOf(l, w) == IF l = "A" THEN bytesToFloat(w) ELSE BytesToFloat32(w)

\* The four bytes of the k-th float field (k from 1), zeros past the buffer's end.
Word(b, k) ==
    <<ByteAt(b, 4 * (k - 1)), ByteAt(b, 4 * (k - 1) + 1),
      ByteAt(b, 4 * (k - 1) + 2), ByteAt(b, 4 * (k - 1) + 3)>>

\* The binary32 fields of a word whose first byte is the least significant.
SignBit(w) == w[4] \div 128

ExponentField(w) == (w[4] % 128) * 2 + (w[3] \div 128)

MantissaField(w) == (w[3] % 128) * 65536 + w[2] * 256 + w[1]

\* The dyadic rational (-1)^s * m * 2^x in lowest terms.
RECURSIVE Lowest(_, _, _)
Lowest(s, m, x) ==
    IF m = 0 THEN [neg |-> s = 1, mant |-> 0, exp |-> 0]
    ELSE IF m % 2 = 0 THEN Lowest(s, m \div 2, x + 1)
    ELSE [neg |-> s = 1, mant |-> m, exp |-> x]

\* The value IEEE 754 gives a binary32 pattern that is neither infinite nor NaN.
Binary32Value(w) ==
    IF ExponentField(w) = 0
    THEN Lowest(SignBit(w), MantissaField(w), -149)
    ELSE Lowest(SignBit(w), MantissaField(w) + 8388608, ExponentField(w) - 150)

IsFloatLayout == layout \in {"A", "B"}

FieldIndexes == 1..Len(FieldsOf(layout))

PlusZero == [neg |-> FALSE, mant |-> 0, exp |-> 0]

One == [neg |-> FALSE, mant |-> 1, exp |-> 0]

\* The buffer with zeros appended up to n bytes.
Padded(b, n) == [i \in 1..(IF Len(b) > n THEN Len(b) ELSE n) |-> ByteAt(b, i - 1)]

\* The buffer with the byte at offset i replaced by v (unchanged when it ends before).
WithByte(b, i, v) == [j \in 1..Len(b) |-> IF j = i + 1 THEN v ELSE b[j]]

\* The buffer with every byte outside offsets from..to replaced by zero.
Only(b, from, to) == [j \in 1..Len(b) |-> IF j - 1 >= from /\ j - 1 <= to THEN b[j] ELSE 0]

----------------------------------------------------------------------------
(* C1 *)

\* C1 (as claimed): in layouts A and B every float32 field whose four bytes have
\* exponent field 255 decodes to null.  Layout A's bytesToFloat has no such
\* test and returns a number.
C1_ExponentAllOnesGivesNull ==
    IsFloatLayout =>
        \A k \in FieldIndexes :
            ExponentField(Word(given, k)) = 255 => record[FieldsOf(layout)[k]] = Null

\* The part of C1 that layout B's BytesToFloat32 keeps.
C1_LayoutB_ExponentAllOnesGivesNull ==
    layout = "B" =>
        \A k \in FieldIndexes :
            ExponentField(Word(given, k)) = 255 => record[FieldsOf(layout)[k]] = Null

----------------------------------------------------------------------------
(* C2 *)

C2_WitnessSubnormal ==
    /\ layout = "A"
    /\ \E k \in FieldIndexes :
          /\ ExponentField(Word(given, k)) = 0
          /\ MantissaField(Word(given, k)) = 3
          /\ record[FieldsA[k]] = [neg |-> FALSE, mant |-> 3, exp |-> -149]

----------------------------------------------------------------------------
(* C3 *)

\* C3: a buffer shorter than the layout reads decodes, in every layout, to the
\* record of the same buffer with zero bytes appended up to that length.
C3_ShortBufferZeroFilled ==
    (layout # "none" /\ Len(given) < FullLength(layout)) =>
        \A p \in Ports : record = DecodeOf(layout, p, Padded(given, FullLength(layout)))

\* A buffer of 0xFF bytes that ends inside a float field, and the empty buffer.
C3_Witness ==
    /\ layout = "B"
    /\ Len(given) = 38
    /\ given[38] = 63
    /\ record.pitch = [neg |-> FALSE, mant |-> 16191, exp |-> -149]

C3_WitnessEmpty == layout = "C" /\ given = <<>> /\ record.time = 0

----------------------------------------------------------------------------
(* C4 *)

Range(f) == {f[i] : i \in DOMAIN f}

\* C4: every call returns a record, and its keys are exactly the layout's keys,
\* whatever the buffer's length and bytes.
C4_FixedKeySet ==
    layout # "none" => record # NoRecord /\ DOMAIN record = Range(FieldsOf(layout))

C4_Witness == layout = "A" /\ Len(given) = 35 /\ given[35] = 255 /\ "missed" \in DOMAIN record

C4_WitnessLong == layout = "C" /\ Len(given) > 40 /\ Cardinality(DOMAIN record) = 7

----------------------------------------------------------------------------
(* C5 *)

\* b as the top byte of an int32.
TopByte(b) == (IF b >= 128 THEN b - 256 ELSE b) * 16777216

\* C5 (as claimed): layout C's integer fields are big-endian, the byte at the
\* lowest offset being the most significant.
C5_BigEndian ==
    layout = "C" =>
        /\ record.time = ByteAt(given, 1) * 65536 + ByteAt(given, 2) * 256 + ByteAt(given, 3)
        /\ record.longitude.num =
              TopByte(ByteAt(given, 5)) + ByteAt(given, 6) * 65536
                  + ByteAt(given, 7) * 256 + ByteAt(given, 8)
        /\ record.latitude.num =
              TopByte(ByteAt(given, 9)) + ByteAt(given, 10) * 65536
                  + ByteAt(given, 11) * 256 + ByteAt(given, 12)
        /\ record.height = ByteAt(given, 13) * 256 + ByteAt(given, 14)
        /\ record.precision.num = ByteAt(given, 15) * 256 + ByteAt(given, 16)

\* C5 (amended): layout C's integer fields are little-endian, the byte at the
\* lowest offset being the least significant.
C5_LittleEndian ==
    layout = "C" =>
        /\ record.time = ByteAt(given, 1) + ByteAt(given, 2) * 256 + ByteAt(given, 3) * 65536
        /\ record.longitude.num =
              ByteAt(given, 5) + ByteAt(given, 6) * 256
                  + ByteAt(given, 7) * 65536 + TopByte(ByteAt(given, 8))
        /\ record.latitude.num =
              ByteAt(given, 9) + ByteAt(given, 10) * 256
                  + ByteAt(given, 11) * 65536 + TopByte(ByteAt(given, 12))
        /\ record.height = ByteAt(given, 13) + ByteAt(given, 14) * 256
        /\ record.precision.num = ByteAt(given, 15) + ByteAt(given, 16) * 256

\* Fields whose first and last byte differ, so that the byte order shows.
C5_Witness ==
    /\ layout = "C"
    /\ ByteAt(given, 1) = 1 /\ ByteAt(given, 2) = 2 /\ record.time = 513

C5_WitnessHeight ==
    /\ layout = "C"
    /\ ByteAt(given, 13) = 255 /\ ByteAt(given, 14) = 1 /\ record.height = 511

----------------------------------------------------------------------------
(* C9 *)

\* C9: in layout C error is bit 0 and fixed is bit 1 of byte 0, each 0 or 1,
\* whatever the other bits and bytes.
C9_FlagBits ==
    layout = "C" =>
        /\ record.error = ByteAt(given, 0) % 2
        /\ record.fixed = (ByteAt(given, 0) \div 2) % 2
        /\ record.error \in {0, 1}
        /\ record.fixed \in {0, 1}

\* Byte 0 = 0x03 has given error = 1 and fixed = 1.
C9_Witness ==
    layout = "C" /\ Len(given) > 0 /\ given[1] = 3 /\ record.error = 1 /\ record.fixed = 1

C9_WitnessFixedOnly ==
    layout = "C" /\ Len(given) > 0 /\ given[1] = 2 /\ record.error = 0 /\ record.fixed = 1

----------------------------------------------------------------------------
(* C8 *)

\* C8: in layouts A and B the k-th field is the layout's float reassembly of the
\* four bytes at offsets 4k .. 4k+3 and of nothing else.
C8_FieldFromItsFourBytes ==
    IsFloatLayout =>
        \A k \in FieldIndexes :
            record[FieldsOf(layout)[k]] = ReassembleOf(layout, Word(given, k))

\* 36 zero bytes under layout A: nine fields, all 0.
C8_Witness ==
    /\ layout = "A"
    /\ Len(given) = 36
    /\ \A i \in 1..36 : given[i] = 0
    /\ \A k \in 1..9 : record[FieldsA[k]] = PlusZero

C8_WitnessDistinctFields ==
    /\ layout = "A"
    /\ Word(given, 6) # Word(given, 7)
    /\ record.roll # record.pitch

----------------------------------------------------------------------------
(* C10 *)

\* Bits 0..30 of a two's-complement int32.
LowBits(n) == IF n < 0 THEN (n + 2147483647) + 1 ELSE n

\* C10: in layout C time is in 0 .. 2^24-1 and comes from bytes 1..3, height and
\* the integer under precision are in 0 .. 65535 (bytes 13..14 and 15..16), the
\* integers under longitude (bytes 5..8) and latitude (bytes 9..12) are the
\* two's-complement int32 of their bytes, negative exactly when the byte at
\* the highest offset is >= 0x80, divided by 1,000,000; byte 4 changes nothing.
C10_RangesOfLayoutC ==
    layout = "C" =>
        /\ record.time \in 0..16777215
        /\ record.time = DecodeC(1, Only(given, 1, 3)).time
        /\ record.height \in 0..65535
        /\ record.height = DecodeC(1, Only(given, 13, 14)).height
        /\ record.precision.num \in 0..65535
        /\ record.precision.den = 10
        /\ record.precision = DecodeC(1, Only(given, 15, 16)).precision
        /\ record.longitude.den = 1000000
        /\ record.longitude = DecodeC(1, Only(given, 5, 8)).longitude
        /\ (record.longitude.num < 0) = (ByteAt(given, 8) >= 128)
        /\ LowBits(record.longitude.num) =
              ByteAt(given, 5) + ByteAt(given, 6) * 256 + ByteAt(given, 7) * 65536
                  + (ByteAt(given, 8) % 128) * 16777216
        /\ record.latitude.den = 1000000
        /\ record.latitude = DecodeC(1, Only(given, 9, 12)).latitude
        /\ (record.latitude.num < 0) = (ByteAt(given, 12) >= 128)
        /\ LowBits(record.latitude.num) =
              ByteAt(given, 9) + ByteAt(given, 10) * 256 + ByteAt(given, 11) * 65536
                  + (ByteAt(given, 12) % 128) * 16777216
        /\ \A v \in ByteVals : DecodeC(1, WithByte(given, 4, v)) = record

\* A negative longitude beside a non-zero byte 4.
C10_Witness ==
    /\ layout = "C"
    /\ ByteAt(given, 4) = 255
    /\ ByteAt(given, 8) >= 128
    /\ record.longitude.num < 0
    /\ record.latitude.num >= 0

----------------------------------------------------------------------------
(* C6 *)

====
